---- MODULE Spec2Model ----
(***************************************************************************)
(* Model of the background job queue (app/modules/worker/runner.py) and    *)
(* the media pipeline (app/modules/transcoding/service.py) of vod-backend, *)
(* together with the request handlers that create media rows and enqueue   *)
(* transcode jobs (app/modules/cms).                                       *)
(*                                                                         *)
(* Every "await" of the worker coroutine is a step boundary: a task's pc   *)
(* names the await it is suspended at, and the action that completes the   *)
(* await runs the synchronous code up to the next await.                   *)
(*                                                                         *)
(* Collaborator failures are inputs: the download, each encoder call, each *)
(* copy or upload, db.get, the READY commit and the notification may fail. *)
(* The rollback and FAILED commit of the failure handler are taken to      *)
(* succeed unless the task is cancelled while it awaits them.              *)
(***************************************************************************)
EXTENDS Integers, Sequences, FiniteSets, TLC

\* ------------------------------------------------------------------ bounds
NumMedia == 2      \* media rows created in one behaviour
MaxJobs == 2       \* jobs enqueued in one behaviour
MaxTasks == 2      \* worker tasks created by start() in one behaviour

MediaIds == 1..NumMedia
JobIds == 1..MaxJobs
TaskIds == 1..MaxTasks

\* ------------------------------------------------------- keys and paths
\* A storage key or path is the sequence of its "/"-separated segments.
FileNames == <<"f1", "f2", "f3", "f4", "f5", "f6">>
FolderNames == <<"d1", "d2", "d3", "d4", "d5", "d6">>

\* file_path stored by upload_media: "/static/uploads/<uuid><ext>"
LocalKey(m) == <<"static", "uploads", FileNames[m]>>

\* storage_key built by create_upload_intent:
\* "creators/<user>/<folder>/<file_uuid>/<filename>"
RemoteKey(m) == <<"creators", FolderNames[m], FileNames[m]>>

\* raw_path.startswith("/static")
IsLocal(k) == Len(k) > 0 /\ k[1] = "static"

\* os.path.dirname
Dirname(k) == SubSeq(k, 1, Len(k) - 1)

\* f"{parent}/hls"
HlsPrefix(k) == Append(Dirname(k), "hls")

\* f"{parent}/hls/index.m3u8" ; f"{hls_prefix}/index.m3u8"
ManifestKey_NoHls(k) == Append(Dirname(k), "index.m3u8")
ManifestKey(k) == Append(HlsPrefix(k), "index.m3u8")

\* f"{parent_key}/poster.jpg" ; original_location / "poster.jpg"
PosterKey(k) == Append(Dirname(k), "poster.jpg")

\* Path(f"c:/vod-saas/vod-backend/{raw_path}")
Fallback(k) == <<"c:", "vod-saas", "vod-backend">> \o k

IsPrefix(p, k) == Len(p) <= Len(k) /\ SubSeq(k, 1, Len(p)) = p

\* path of a file of the hls output tree, relative to hls_dir
Rel(f) ==
    CASE f = "index" -> <<"index.m3u8">>
      [] f = "v1" -> <<"v1", "playlist.m3u8">>
      [] f = "v2" -> <<"v2", "playlist.m3u8">>

\* os.walk(hls_dir) visits the top directory first, then v1, then v2
WalkOrder == <<"index", "v1", "v2">>

\* the sub-playlists listed by the master playlist written in _transcode_hls
Renditions == {"v1", "v2"}

\* the files of a sequence that are in a set, in the sequence's order
RECURSIVE Present(_, _)
Present(s, S) ==
    IF s = <<>> THEN <<>>
    ELSE IF Head(s) \in S THEN <<Head(s)>> \o Present(Tail(s), S)
         ELSE Present(Tail(s), S)

VARIABLES
    queue,       \* Worker.queue: jobs [id, media, kind], head first
    is_running,  \* Worker.is_running
    curTask,     \* Worker._task (0 = None)
    numTasks,    \* tasks created so far
    tasks,       \* per worker task: pc, current job and the course of its run
    stopWait,    \* stop() calls at "await self._task": <<task awaited, media
                 \* of the run in progress when stop() was called (0 = none)>>
    db,          \* committed media rows
    disk,        \* files under the local static root
    b2,          \* objects in the bucket
    work,        \* TRANSCODE_DIR/<media id>
    nextJob,     \* jobs enqueued so far
    ended        \* the handler that ended in the step just taken, if any

vars == <<queue, is_running, curTask, numTasks, tasks, stopWait,
          db, disk, b2, work, nextJob, ended>>

NoRow == [exists |-> FALSE, file_path |-> <<>>, status |-> "none"]
NoWork == [exists |-> FALSE, files |-> {}]

\* job, media: the job being handled; key, entry: file_path and status the
\* session loaded; cause: the stage that failed; writes: statuses this run
\* persisted; keyWritten: this run committed file_path; notified: "Media
\* Ready" notifications this run sent; wrote: durable files this run wrote;
\* from: the persisted status its first write replaced; second: run() has
\* returned and process_media_job is in its "if new_path:" block; src: the
\* path _locate_source returned (self.source_path) for a local source; empty:
\* the downloaded source file has length zero; calls: create_notification
\* calls this run made
NoTask == [pc |-> "none", job |-> 0, media |-> 0, cancel |-> FALSE,
           pending |-> <<>>, key |-> <<>>, src |-> <<>>, empty |-> FALSE,
           calls |-> 0, entry |-> "none",
           cause |-> "none", writes |-> <<>>, keyWritten |-> FALSE,
           notified |-> 0, wrote |-> {}, from |-> "none", second |-> FALSE]

NoEnd == [how |-> "none"]

Init ==
    /\ queue = <<>>
    /\ is_running = FALSE
    /\ curTask = 0
    /\ numTasks = 0
    /\ tasks = [t \in TaskIds |-> NoTask]
    /\ stopWait = {}
    /\ db = [m \in MediaIds |-> NoRow]
    /\ disk = {}
    /\ b2 = {}
    /\ work = [m \in MediaIds |-> NoWork]
    /\ nextJob = 0
    /\ ended = NoEnd

\* ------------------------------------------------------ request handlers
\* Worker.__init__: self.queue = asyncio.Queue(), whose maxsize is 0, so
\* full() is never true and put() never waits for a free slot
Full_AtOne(q) == Len(q) >= 1
Full(q) == FALSE

\* Worker.enqueue_job: "await self.queue.put(...)" appends at the tail
Enqueued(q, job) == Append(q, job)

EnqueueJob(m) ==
    /\ nextJob < MaxJobs
    /\ ~Full(queue)
    /\ nextJob' = nextJob + 1
    /\ queue' = Enqueued(queue, [id |-> nextJob + 1, media |-> m,
                                  kind |-> "transcode_media"])

\* an id db.get finds no row for: the row was removed by delete_media after
\* the job was enqueued, or there never was one
NoAsset == NumMedia + 1

\* Worker.enqueue_job called with another task name, or with
\* "transcode_media" and no media_id (media 0) or the id of no stored media
EnqueueOther ==
    /\ nextJob < MaxJobs
    /\ ~Full(queue)
    /\ nextJob' = nextJob + 1
    /\ \E job \in {[id |-> nextJob + 1, media |-> 0, kind |-> "other"],
                   [id |-> nextJob + 1, media |-> 0, kind |-> "transcode_media"],
                   [id |-> nextJob + 1, media |-> NoAsset,
                    kind |-> "transcode_media"]} :
         queue' = Enqueued(queue, job)
    /\ ended' = NoEnd
    /\ UNCHANGED <<is_running, curTask, numTasks, tasks, stopWait, db, disk,
                   b2, work>>

\* a new row takes the next unused media id
FreshId(m) == ~db[m].exists /\ \A n \in 1..(m - 1) : db[n].exists

\* POST /upload: upload_media saves the file under static/uploads and
\* inserts a PENDING row, then the router enqueues transcode_media.
UploadFile(m) ==
    /\ FreshId(m)
    /\ disk' = disk \cup {LocalKey(m)}
    /\ db' = [db EXCEPT ![m] = [exists |-> TRUE, file_path |-> LocalKey(m),
                                status |-> "PENDING"]]
    /\ EnqueueJob(m)
    /\ ended' = NoEnd
    /\ UNCHANGED <<is_running, curTask, numTasks, tasks, stopWait, b2, work>>

\* POST /media/upload-intent: create_upload_intent inserts a PENDING row
\* whose file_path is the object key the client is to upload to.
UploadIntent(m) ==
    /\ FreshId(m)
    /\ db' = [db EXCEPT ![m] = [exists |-> TRUE, file_path |-> RemoteKey(m),
                                status |-> "PENDING"]]
    /\ ended' = NoEnd
    /\ UNCHANGED <<queue, is_running, curTask, numTasks, tasks, stopWait,
                   disk, b2, work, nextJob>>

\* PATCH /media/{id}/complete: complete_upload sets a video PENDING and
\* commits, then the router enqueues transcode_media. The client calls it
\* with or without having sent the object to the upload URL of its intent.
CompleteUpload(m) ==
    /\ db[m].exists
    /\ db' = [db EXCEPT ![m].status = "PENDING"]
    /\ EnqueueJob(m)
    /\ \E sent \in BOOLEAN :
         b2' = IF sent /\ ~IsLocal(db[m].file_path)
               THEN b2 \cup {RemoteKey(m)} ELSE b2
    /\ ended' = NoEnd
    /\ UNCHANGED <<is_running, curTask, numTasks, tasks, stopWait, disk, work>>

\* The uploaded file of a local media is no longer at its path under the
\* working directory (the case _locate_source tests with
\* full_path.exists()): it is gone, or the uploads are under the backend
\* root and the server now runs from another directory.
SourceLost(m) ==
    /\ LocalKey(m) \in disk
    /\ \E moved \in BOOLEAN :
         disk' = (disk \ {LocalKey(m)}) \cup
                 (IF moved THEN {Fallback(LocalKey(m))} ELSE {})
    /\ ended' = NoEnd
    /\ UNCHANGED <<queue, is_running, curTask, numTasks, tasks, stopWait,
                   db, b2, work, nextJob>>

\* ------------------------------------------------------ Worker lifecycle
\* Worker.start
Start ==
    IF is_running
    THEN UNCHANGED vars
    ELSE /\ numTasks < MaxTasks
         /\ is_running' = TRUE
         /\ numTasks' = numTasks + 1
         /\ curTask' = numTasks + 1
         /\ tasks' = [tasks EXCEPT ![numTasks + 1] =
                         [NoTask EXCEPT !.pc = "check"]]
         /\ ended' = NoEnd
         /\ UNCHANGED <<queue, stopWait, db, disk, b2, work, nextJob>>

\* awaits of run() that lie inside its try/finally
InRun(pc) == pc \in {"download", "enc1", "enc2", "thumb1", "thumb2",
                     "upload", "commit", "notify"}

\* Worker.stop up to its "await self._task"; awaiting a task that has
\* finished does not suspend, and stop() returns in the same step
StopCall ==
    /\ is_running' = FALSE
    /\ IF curTask # 0 /\ tasks[curTask].pc # "done"
       THEN /\ tasks' = [tasks EXCEPT ![curTask].cancel = TRUE]
            /\ stopWait' = stopWait \cup
                   {<<curTask, IF InRun(tasks[curTask].pc)
                               THEN tasks[curTask].media ELSE 0>>}
       ELSE UNCHANGED <<tasks, stopWait>>
    /\ ended' = NoEnd
    /\ UNCHANGED <<queue, curTask, numTasks, db, disk, b2, work, nextJob>>

\* "await self._task" completes once the task has finished
TaskFinished_NoWait(t) == TRUE
TaskFinished(t) == tasks[t].pc = "done"

StopReturn ==
    /\ \E w \in stopWait :
         /\ TaskFinished(w[1])
         /\ stopWait' = stopWait \ {w}
    /\ ended' = NoEnd
    /\ UNCHANGED <<queue, is_running, curTask, numTasks, tasks, db, disk,
                   b2, work, nextJob>>


\* ----------------------------------------------------------- worker loop
MediaOf(t) == tasks[t].media
KeyOf(t) == tasks[t].key

\* a stop() call whose task has finished is resumed by the event loop
\* before a task resumes from an await that completes after that
NoStopReady == \A w \in stopWait : ~TaskFinished(w[1])

\* The event loop runs its ready callbacks in the order they were
\* scheduled: the CancelledError of a cancelled task is raised before a task
\* resumes from an await that completes after the cancel() call.
NoCancelPending == \A u \in TaskIds : ~tasks[u].cancel

\* the await a task may complete
Runs(t, pc) == tasks[t].pc = pc /\ NoCancelPending /\ NoStopReady

\* "while self.is_running" as evaluated when a job has been handled
AfterJob_Exit == "done"
AfterJob == IF is_running THEN "get" ELSE "done"

\* the loop's "except Exception" around the handler: the error is logged
\* and the loop goes on to its "while self.is_running"
AfterRaise_Exit == "done"
AfterRaise == IF is_running THEN "get" ELSE "done"

\* the task once the handler of its job is over (queue.task_done)
Idle(pc) == [NoTask EXCEPT !.pc = pc]

\* what is recorded of a handler when it ends: the task's run, how it
\* ended, and the row's file_path just before the last step
EndOf(t, run, how) ==
    [how |-> how, task |-> t, job |-> run.job, media |-> run.media,
     key |-> run.key, entry |-> run.entry, cause |-> run.cause,
     writes |-> run.writes, keyWritten |-> run.keyWritten,
     notified |-> run.notified, wrote |-> run.wrote,
     from |-> run.from, src |-> run.src,
     calls |-> run.calls,
     prevKey |-> IF run.media \in MediaIds THEN db[run.media].file_path
                 ELSE <<>>,
     at |-> tasks[t].pc]

\* first step of a task created by start(): "while self.is_running"
LoopCheck(t) ==
    /\ Runs(t, "check")
    /\ tasks' = [tasks EXCEPT ![t].pc = AfterJob]
    /\ ended' = NoEnd
    /\ UNCHANGED <<queue, is_running, curTask, numTasks, stopWait, db, disk,
                   b2, work, nextJob>>

\* "await self.queue.get()" returns the oldest job (asyncio.Queue pops its
\* deque from the left); the handler begins: process_media_job opens a
\* session and awaits db.get
NextJobOf_Newest(q) == q[Len(q)]
NextJobOf(q) == Head(q)

\* the queue once get() has returned a job: the job is popped, and nothing
\* in _process_queue puts a job back
Taken_Kept(q, job) == q
Taken(q, job) == SelectSeq(q, LAMBDA x : x # job)

\* _process_queue calls process_media_job for a "transcode_media" job
\* whose kwargs hold a media_id; for any other job it does nothing
Dispatched(job) == job.kind = "transcode_media" /\ job.media # 0

Dequeue(t) ==
    /\ Runs(t, "get")
    /\ queue # <<>>
    /\ LET job == NextJobOf(queue)
           run == [tasks[t] EXCEPT !.job = job.id, !.media = job.media]
       IN
        /\ queue' = Taken(queue, job)
        /\ IF Dispatched(job)
           THEN /\ tasks' = [tasks EXCEPT ![t] = [run EXCEPT !.pc = "load"]]
                /\ ended' = NoEnd
           ELSE /\ tasks' = [tasks EXCEPT ![t] = Idle(AfterJob)]
                /\ ended' = EndOf(t, run, "skipped")
    /\ UNCHANGED <<is_running, curTask, numTasks, stopWait, db, disk, b2,
                   work, nextJob>>

\* ------------------------------------------------------- media pipeline
\* MediaProcessor.run, "finally": shutil.rmtree(self.work_dir)
Cleaned(w) == NoWork

\* self.work_dir.mkdir(parents=True, exist_ok=True)
Made(w) == [w EXCEPT !.exists = TRUE]

\* process_media_job, "except Exception": rollback, then
\* media.processing_status = FAILED and commit
FailedRow_Unsaved(row) == row
FailedRow(row) == [row EXCEPT !.status = "FAILED"]

\* MediaProcessor.run step 6: file_path and processing_status, one commit
ReadyRow_KeyOnly(row, k) == [row EXCEPT !.file_path = k]
ReadyRow(row, k) == [row EXCEPT !.file_path = k, !.status = "READY"]

\* _run_ffmpeg raises on a non-zero exit code, and nothing in
\* _transcode_hls catches it
AfterEncoder_Ignored(ok, next) == next
AfterEncoder(ok, next) == IF ok THEN next ELSE "failsave"

\* the source the encoder reads (self.source_path) is there and ffmpeg
\* finds a stream in it
SourceThere(t) ==
    IF IsLocal(KeyOf(t)) THEN tasks[t].src \in disk
    ELSE "source" \in work[MediaOf(t)].files /\ ~tasks[t].empty

\* _locate_source for a local key: the path under the working directory
\* if a file is there, else the path under the backend root if a file is
\* there, else none (FileNotFoundError)
Located(k, files) ==
    IF k \in files THEN k
    ELSE IF Fallback(k) \in files THEN Fallback(k)
    ELSE <<>>

\* the task after a stage failed: run()'s exception reaches
\* process_media_job, which awaits the rollback and the FAILED commit
Failing(run, cause) ==
    [run EXCEPT !.pc = "failsave", !.cause = cause, !.pending = <<>>]

\* "media = await db.get(Media, media_id)": the row, or None
Stored(m) == IF m \in MediaIds THEN db[m] ELSE NoRow

\* "if not media: return"
Found_Always(row) == TRUE
Found(row) == row.exists

\* db.get returns or raises. When it returns no row, the handler logs an
\* error and returns. When it returns a row, run() makes the workspace and
\* _locate_source resolves a local source or starts the download of a
\* remote one. When it raises, the handler raises to the worker loop, which
\* logs the exception, calls task_done and goes on.
Load(t) ==
    /\ Runs(t, "load")
    /\ LET m == MediaOf(t)
           row == Stored(m)
           k == row.file_path
           src == IF IsLocal(k) THEN Located(k, disk) ELSE k
           found == src # <<>>
           run == [tasks[t] EXCEPT !.key = k, !.entry = row.status,
                                   !.src = src]
       IN \E ok \in BOOLEAN :
        IF ok /\ ~Found(row)
        THEN /\ tasks' = [tasks EXCEPT ![t] = Idle(AfterJob)]
             /\ ended' = EndOf(t, tasks[t], "notfound")
             /\ UNCHANGED work
        ELSE IF ok
        THEN /\ tasks' = [tasks EXCEPT ![t] =
                            IF ~found THEN Failing(run, "resolve")
                            ELSE [run EXCEPT !.pc = IF IsLocal(k) THEN "enc1"
                                                    ELSE "download"]]
             /\ work' = [work EXCEPT ![m] =
                            IF found THEN Made(@) ELSE Cleaned(Made(@))]
             /\ ended' = NoEnd
        ELSE /\ tasks' = [tasks EXCEPT ![t] = Idle(AfterRaise)]
             /\ ended' = EndOf(t, tasks[t], "raised")
             /\ UNCHANGED work
    /\ UNCHANGED <<queue, is_running, curTask, numTasks, stopWait, db, disk,
                   b2, nextJob>>

\* what _locate_source accepts after download_file has returned:
\* local_dl_path.exists(); the file's size is logged, not tested
Accepted(outcome) == outcome \in {"ok", "empty"}

\* b2.download_file returns (leaving a file with content, an empty file or
\* no file) or raises
DownloadDone(t) ==
    /\ Runs(t, "download")
    /\ LET m == MediaOf(t) IN
        \E outcome \in {"ok", "empty", "raise", "nofile"} :
         /\ outcome = "ok" => KeyOf(t) \in b2
         /\ outcome \in {"ok", "empty"} => work[m].exists
         /\ tasks' = [tasks EXCEPT ![t] =
                         IF Accepted(outcome)
                         THEN [@ EXCEPT !.pc = "enc1",
                                        !.empty = (outcome = "empty")]
                         ELSE Failing(@, "resolve")]
         /\ work' = [work EXCEPT ![m] =
                         IF Accepted(outcome)
                         THEN [@ EXCEPT !.files = @ \cup {"source"}]
                         ELSE Cleaned(@)]
    /\ ended' = NoEnd
    /\ UNCHANGED <<queue, is_running, curTask, numTasks, stopWait, db, disk,
                   b2, nextJob>>

\* one rendition's ffmpeg returns: f is the sub-playlist it writes, extra
\* what the pipeline writes after it succeeded (the master playlist)
EncoderDone(t, pc, f, extra, next) ==
    /\ Runs(t, pc)
    /\ LET m == MediaOf(t) IN
        \E ok \in BOOLEAN :
         /\ ok => work[m].exists /\ SourceThere(t)
         /\ LET to == AfterEncoder(ok, next) IN
             /\ tasks' = [tasks EXCEPT ![t] =
                             IF to = "failsave" THEN Failing(@, "encode")
                             ELSE [@ EXCEPT !.pc = to,
                                            !.cause = IF ok THEN @ ELSE "encode"]]
             /\ work' = [work EXCEPT ![m] =
                             IF to = "failsave" THEN Cleaned(@)
                             ELSE IF ok
                                  THEN [@ EXCEPT !.files = @ \cup {f} \cup extra]
                                  ELSE @]
    /\ ended' = NoEnd
    /\ UNCHANGED <<queue, is_running, curTask, numTasks, stopWait, db, disk,
                   b2, nextJob>>

\* await self._run_ffmpeg(cmd1)
Enc1Done(t) == EncoderDone(t, "enc1", "v1", {}, "enc2")

\* await self._run_ffmpeg(cmd2), then the master playlist is written
Enc2Done(t) == EncoderDone(t, "enc2", "v2", {"index"}, "thumb1")


\* durable key of a workspace file published for source key k
PublishedKey(k, f) ==
    IF f = "poster" THEN PosterKey(k) ELSE HlsPrefix(k) \o Rel(f)

\* the first n files of a sequence of workspace files, as durable keys
Copied(k, fs, n) == {PublishedKey(k, fs[i]) : i \in 1..n}

\* "if target_hls.exists(): shutil.rmtree(target_hls)"
Removed_Kept(files, target) == files
Removed(files, target) == {p \in files : ~IsPrefix(target, p)}

\* shutil.copytree raises when its destination directory exists
TargetThere(files, target) == \E p \in files : IsPrefix(target, p)

\* _upload_results for a local source (the target is "hls" beside
\* self.source_path): rmtree of the target if it exists,
\* copytree of hls_dir (which raises when the target is there, and at the
\* first file it cannot copy), copy2 of the thumbnail. n is the number of
\* files copied before a copy fails, the thumbnail being the last.
PublishLocal(t, fs, n) ==
    LET m == MediaOf(t)
        k == tasks[t].src
        all == Present(WalkOrder, fs) \o <<"poster">>
        kept == Removed(disk, HlsPrefix(k))
        blocked == TargetThere(kept, HlsPrefix(k))
        done == n = Len(all) /\ ~blocked
        new == IF blocked THEN {} ELSE Copied(k, all, n)
        run == [tasks[t] EXCEPT !.wrote = @ \cup new]
    IN
     /\ n \in 0..Len(all)
     /\ blocked => n = 0
     /\ disk' = kept \cup new
     /\ tasks' = [tasks EXCEPT ![t] =
                     IF done THEN [run EXCEPT !.pc = "commit"]
                     ELSE Failing(run, IF blocked THEN "target" ELSE "publish")]
     /\ work' = [work EXCEPT ![m] =
                    IF done THEN [@ EXCEPT !.files = fs] ELSE Cleaned(@)]
     /\ UNCHANGED b2

\* _upload_results for a remote source: os.walk lists the tree, the first
\* upload_local_file is awaited
PublishRemote(t, fs) ==
    LET m == MediaOf(t) IN
     /\ tasks' = [tasks EXCEPT ![t].pc = "upload",
                               ![t].pending = Present(WalkOrder, fs)
                                              \o <<"poster">>]
     /\ work' = [work EXCEPT ![m].files = fs]
     /\ UNCHANGED <<disk, b2>>

\* the thumbnail's ffmpeg returns. A failure of the first attempt is caught
\* by the bare "except:" and the second attempt (at 0 s) is started; after a
\* success run() goes on to _upload_results.
ThumbDone(t, pc) ==
    /\ Runs(t, pc)
    /\ LET m == MediaOf(t) IN
        \E ok \in BOOLEAN :
         /\ ok => work[m].exists /\ SourceThere(t)
         /\ IF ok
            THEN LET fs == work[m].files \cup {"poster"} IN
                  IF IsLocal(KeyOf(t))
                  THEN \E n \in 0..(Len(WalkOrder) + 1) : PublishLocal(t, fs, n)
                  ELSE PublishRemote(t, fs)
            ELSE /\ tasks' = [tasks EXCEPT ![t] =
                                 IF pc = "thumb1" THEN [@ EXCEPT !.pc = "thumb2"]
                                 ELSE Failing(@, "thumb")]
                 /\ work' = [work EXCEPT ![m] =
                                 IF pc = "thumb1" THEN @ ELSE Cleaned(@)]
                 /\ UNCHANGED <<disk, b2>>
    /\ ended' = NoEnd
    /\ UNCHANGED <<queue, is_running, curTask, numTasks, stopWait, db,
                   nextJob>>

Thumb1Done(t) == ThumbDone(t, "thumb1")
Thumb2Done(t) == ThumbDone(t, "thumb2")

\* where run() goes after one upload: upload_local_file re-raises what the
\* bucket raises, and nothing in _upload_results catches it
AfterUpload_Ignored(ok, rest) == IF rest = <<>> THEN "commit" ELSE "upload"
AfterUpload(ok, rest) ==
    IF ~ok THEN "failsave"
    ELSE IF rest = <<>> THEN "commit" ELSE "upload"

\* one b2.upload_local_file returns or raises
UploadDone(t) ==
    /\ Runs(t, "upload")
    /\ LET m == MediaOf(t)
           f == Head(tasks[t].pending)
           rest == Tail(tasks[t].pending)
           key == PublishedKey(KeyOf(t), f)
       IN \E ok \in BOOLEAN :
        /\ ok => work[m].exists /\ f \in work[m].files
        /\ LET to == AfterUpload(ok, rest) IN
            /\ b2' = IF ok THEN b2 \cup {key} ELSE b2
            /\ tasks' = [tasks EXCEPT ![t] =
                            IF to = "failsave" THEN Failing(@, "publish")
                            ELSE [@ EXCEPT !.pc = to,
                                           !.pending = rest,
                                           !.wrote = IF ok THEN @ \cup {key} ELSE @,
                                           !.cause = IF ok THEN @ ELSE "publish"]]
            /\ work' = [work EXCEPT ![m] =
                            IF to = "failsave" THEN Cleaned(@) ELSE @]
    /\ ended' = NoEnd
    /\ UNCHANGED <<queue, is_running, curTask, numTasks, stopWait, db, disk,
                   nextJob>>

\* what "new_path = await processor.run()" yields: run() has no return
\* statement, so new_path is None and the "if new_path:" block is skipped
RunReturnsPath_Yes == TRUE
RunReturnsPath == FALSE

\* a persisted status write by the run of a task
Wrote(run, status) ==
    [run EXCEPT !.writes = Append(@, status),
                !.from = IF run.writes = <<>> THEN db[run.media].status ELSE @]

\* where the handler goes after the READY commit: a commit that raises is
\* not caught in run() and reaches process_media_job's "except Exception"
AfterCommit_Ignored(ok) == "notify"
AfterCommit(ok) == IF ok THEN "notify" ELSE "failsave"

\* "await self.db.commit()" returns or raises: the commit of run(), or the
\* commit of the "if new_path:" block, which writes the same two fields
CommitDone(t) ==
    /\ Runs(t, "commit")
    /\ LET m == MediaOf(t) IN
        \E ok \in BOOLEAN :
         LET to == AfterCommit(ok)
             run == IF ok THEN [Wrote(tasks[t], "READY") EXCEPT !.keyWritten = TRUE]
                    ELSE [tasks[t] EXCEPT !.cause = "save"]
         IN
          /\ db' = [db EXCEPT ![m] =
                       IF ok THEN ReadyRow(@, ManifestKey(KeyOf(t))) ELSE @]
          /\ tasks' = [tasks EXCEPT ![t] =
                          IF to = "failsave" THEN Failing(run, "save")
                          ELSE [run EXCEPT !.pc = to, !.calls = @ + 1]]
          /\ work' = [work EXCEPT ![m] =
                         IF to = "failsave" /\ ~tasks[t].second THEN Cleaned(@)
                         ELSE @]
    /\ ended' = NoEnd
    /\ UNCHANGED <<queue, is_running, curTask, numTasks, stopWait, disk, b2,
                   nextJob>>

\* create_notification returns or raises.
\* In run() the exception is logged and dropped, "finally" removes the
\* workspace and run() returns; the handler ends unless run() returned a
\* path. In the "if new_path:" block nothing catches the exception before
\* process_media_job's "except Exception".
Notified(n, ok) == IF ok THEN n + 1 ELSE n

\* the try/except Exception of run() around its create_notification call;
\* second: the call is the one of the "if new_path:" block
CaughtInRun_Never(second) == FALSE
CaughtInRun(second) == ~second

NotifyDone(t) ==
    /\ Runs(t, "notify")
    /\ LET m == MediaOf(t)
           second == tasks[t].second
       IN
        \E ok \in BOOLEAN :
         LET run == [tasks[t] EXCEPT !.notified = Notified(@, ok)] IN
          IF ~ok /\ ~CaughtInRun(second)
          THEN /\ tasks' = [tasks EXCEPT ![t] = Failing(run, "notify")]
               /\ work' = [work EXCEPT ![m] = IF second THEN @ ELSE Cleaned(@)]
               /\ ended' = NoEnd
          ELSE IF ~second /\ RunReturnsPath
          THEN /\ work' = [work EXCEPT ![m] = Cleaned(@)]
               /\ tasks' = [tasks EXCEPT ![t] =
                               [run EXCEPT !.pc = "commit", !.second = TRUE]]
               /\ ended' = NoEnd
          ELSE /\ work' = [work EXCEPT ![m] = IF second THEN @ ELSE Cleaned(@)]
               /\ tasks' = [tasks EXCEPT ![t] = Idle(AfterJob)]
               /\ ended' = EndOf(t, run, "returned")
    /\ UNCHANGED <<queue, is_running, curTask, numTasks, stopWait, db, disk,
                   b2, nextJob>>

\* the rollback and the FAILED commit of process_media_job return; the
\* handler ends
FailSaveDone(t) ==
    /\ Runs(t, "failsave")
    /\ LET m == MediaOf(t) IN
        /\ db' = [db EXCEPT ![m] = FailedRow(@)]
        /\ tasks' = [tasks EXCEPT ![t] = Idle(AfterJob)]
        /\ ended' = EndOf(t, Wrote(tasks[t], "FAILED"), "returned")
    /\ UNCHANGED <<queue, is_running, curTask, numTasks, stopWait, disk, b2,
                   work, nextJob>>

\* --------------------------------------------------------- cancellation
\* awaits inside a "try" whose handler catches CancelledError and goes on:
\* the bare "except:" of _generate_thumbnail around its first attempt
SwallowsCancel(pc) == pc = "thumb1"

\* awaits of the handler (process_media_job and what it calls)
InHandler(pc) == InRun(pc) \/ pc \in {"load", "failsave"}

\* task.cancel() takes effect: CancelledError is raised at the await the
\* task is suspended at. It is not an Exception, so only "finally" blocks,
\* the bare "except:" and the loop's "except asyncio.CancelledError: break"
\* see it. A commit that was in flight may or may not have been applied.
Cancelled(t) ==
    /\ tasks[t].cancel
    /\ LET pc == tasks[t].pc
           m == MediaOf(t)
       IN
        IF ~InHandler(pc)
        THEN /\ tasks' = [tasks EXCEPT ![t] = Idle("done")]
             /\ ended' = NoEnd
             /\ UNCHANGED <<db, work>>
        ELSE IF SwallowsCancel(pc)
        THEN /\ tasks' = [tasks EXCEPT ![t].pc = "thumb2",
                                       ![t].cancel = FALSE]
             /\ ended' = NoEnd
             /\ UNCHANGED <<db, work>>
        ELSE \E applied \in BOOLEAN :
             /\ applied => pc \in {"commit", "failsave"}
             /\ tasks' = [tasks EXCEPT ![t] = Idle("done")]
             /\ work' = IF InRun(pc) /\ ~tasks[t].second
                        THEN [work EXCEPT ![m] = Cleaned(@)]
                        ELSE work
             /\ db' = IF ~applied THEN db
                      ELSE [db EXCEPT ![m] =
                               IF pc = "commit"
                               THEN ReadyRow(@, ManifestKey(KeyOf(t)))
                               ELSE FailedRow(@)]
             /\ ended' = EndOf(t,
                   IF ~applied THEN tasks[t]
                   ELSE IF pc = "commit"
                        THEN [Wrote(tasks[t], "READY") EXCEPT !.keyWritten = TRUE]
                        ELSE Wrote(tasks[t], "FAILED"),
                   "cancelled")
    /\ UNCHANGED <<queue, is_running, curTask, numTasks, stopWait, disk, b2,
                   nextJob>>

\* ------------------------------------------------------------ behaviours
Next ==
    \/ \E m \in MediaIds : UploadFile(m)
    \/ \E m \in MediaIds : UploadIntent(m)
    \/ \E m \in MediaIds : CompleteUpload(m)
    \/ EnqueueOther
    \/ \E m \in MediaIds : SourceLost(m)
    \/ Start
    \/ StopCall
    \/ StopReturn
    \/ \E t \in TaskIds : LoopCheck(t)
    \/ \E t \in TaskIds : Dequeue(t)
    \/ \E t \in TaskIds : Load(t)
    \/ \E t \in TaskIds : DownloadDone(t)
    \/ \E t \in TaskIds : Enc1Done(t)
    \/ \E t \in TaskIds : Enc2Done(t)
    \/ \E t \in TaskIds : Thumb1Done(t)
    \/ \E t \in TaskIds : Thumb2Done(t)
    \/ \E t \in TaskIds : UploadDone(t)
    \/ \E t \in TaskIds : CommitDone(t)
    \/ \E t \in TaskIds : NotifyDone(t)
    \/ \E t \in TaskIds : FailSaveDone(t)
    \/ \E t \in TaskIds : Cancelled(t)

Spec == Init /\ [][Next]_vars

\* the steps of one worker task. The event loop resumes a task whose await
\* has completed, and the awaited collaborators (database, executor threads
\* running ffmpeg and the bucket client) are taken to return or raise, so a
\* task that can take a step eventually takes one.
TaskStep(t) ==
    \/ LoopCheck(t)
    \/ Dequeue(t)
    \/ Load(t)
    \/ DownloadDone(t)
    \/ Enc1Done(t)
    \/ Enc2Done(t)
    \/ Thumb1Done(t)
    \/ Thumb2Done(t)
    \/ UploadDone(t)
    \/ CommitDone(t)
    \/ NotifyDone(t)
    \/ FailSaveDone(t)
    \/ Cancelled(t)

FairSpec ==
    /\ Spec
    /\ \A t \in TaskIds : WF_vars(TaskStep(t))
    /\ WF_vars(StopReturn)

\* ------------------------------------------------------------ type check
TypeOK ==
    /\ is_running \in BOOLEAN
    /\ curTask \in 0..MaxTasks
    /\ stopWait \subseteq (TaskIds \X (0..NumMedia))
    /\ nextJob \in 0..MaxJobs
    /\ \A t \in TaskIds : tasks[t].pc \in
          {"none", "check", "get", "load", "download", "enc1", "enc2",
           "thumb1", "thumb2", "upload", "commit", "notify", "failsave",
           "done"}
    /\ \A m \in MediaIds : db[m].status \in {"none", "PENDING", "READY", "FAILED"}


\* ---------------------------------------------------------------- claims
HasEnded == ended.how # "none"
Returned == ended.how = "returned"
Aborted == ended.how = "cancelled"

\* a key the pipeline wrote: ".../hls/index.m3u8"
IsManifestKey(k) ==
    /\ Len(k) >= 2
    /\ k[Len(k)] = "index.m3u8"
    /\ k[Len(k) - 1] = "hls"

\* the manifest and the sub-playlists it lists
TreeOf(k) == {Dirname(k) \o Rel(f) : f \in {"index"} \cup Renditions}

\* where a key is stored
Durable(k) == IF IsLocal(k) THEN disk ELSE b2

\* C1: whenever a row's file_path is a manifest key, the manifest and both
\* sub-playlists it lists exist in durable storage.
C1_ManifestTreeExists ==
    \A m \in MediaIds :
        db[m].exists /\ IsManifestKey(db[m].file_path)
            => TreeOf(db[m].file_path) \subseteq Durable(db[m].file_path)

C3_WorkspaceGoneAtReturn ==
    Returned => ~work[ended.media].exists

\* C4: a handler begins only when every job enqueued earlier has begun, and,
\* where a single worker task is alive, has also ended.
LiveTasks == {t \in TaskIds : tasks[t].pc \notin {"none", "done"}}
QueuedIds == {queue[i].id : i \in 1..Len(queue)}

C4_Fifo ==
    [][\A t \in TaskIds :
          tasks[t].job = 0 /\ tasks'[t].job # 0
            => \A i \in 1..(tasks'[t].job - 1) :
                  /\ i \notin QueuedIds
                  /\ Cardinality(LiveTasks) = 1
                        => \A u \in TaskIds : tasks[u].job # i]_vars

C4_Witness ==
    \E t \in TaskIds : tasks[t].job = 2 /\ tasks[t].pc = "load"

\* C5: at most one handler is executing.
C5_AtMostOneHandler ==
    Cardinality({t \in TaskIds : InHandler(tasks[t].pc)}) <= 1

C7_RaiseIsolated ==
    [][ended'.how = "raised" /\ ended' # ended
          => /\ tasks'[ended'.task].pc = (IF is_running THEN "get" ELSE "done")
             /\ \A u \in TaskIds \ {ended'.task} : tasks'[u] = tasks[u]
             /\ UNCHANGED <<queue, db, disk, b2, work, is_running>>]_vars

C7_Witness ==
    /\ ended.how = "raised"
    /\ queue # <<>>
    /\ Runs(ended.task, "get")

\* C8 as stated: a run persists a status at most once, and the status it
\* replaces is PENDING.
C8_OneWriteFromPending ==
    HasEnded /\ ended.writes # <<>>
        => Len(ended.writes) = 1 /\ ended.from = "PENDING"

\* C9: a run whose last persisted status is FAILED sent no "Media Ready"
\* notification.
C9_NoReadyNoteWhenFailed ==
    HasEnded /\ ended.writes # <<>>
             /\ ended.writes[Len(ended.writes)] = "FAILED"
        => ended.notified = 0

C9_Witness ==
    /\ Returned
    /\ ended.writes = <<"FAILED">>
    /\ ended.cause = "save"
    /\ ended.notified = 0

C13_NotifyFailureIsolated ==
    [][\A t \in TaskIds :
          /\ Runs(t, "notify")
          /\ tasks'[t].pc # "notify"
          /\ (IF ended'.how # "none" THEN ended'.notified
              ELSE tasks'[t].notified) = tasks[t].notified
          => /\ ended'.how = "returned"
             /\ ended'.task = t
             /\ ended'.writes = <<"READY">>
             /\ ended'.keyWritten
             /\ tasks'[t].pc = (IF is_running THEN "get" ELSE "done")
             /\ db' = db]_vars

C13_Witness ==
    /\ Returned
    /\ ended.at = "notify"
    /\ ended.notified = 0
    /\ db[ended.media].status = "READY"
    /\ db[ended.media].file_path = ManifestKey(ended.key)

\* C14: the queue is never full, and the request that enqueues a job for an
\* existing media can complete in every state, whatever the queue holds and
\* wherever the worker tasks are.
C14_EnqueueNeverWaits ==
    /\ ~Full(queue)
    /\ \A m \in MediaIds :
          db[m].exists /\ nextJob < MaxJobs => ENABLED CompleteUpload(m)

C14_Witness ==
    /\ Len(queue) >= 1
    /\ \E t \in TaskIds : tasks[t].pc = "upload"

\* C15: a job enters the queue only when it is created, leaves it when a
\* task takes it, is taken by one task only, and stays with that task until
\* its handler is over: no job is handed to a handler twice.
C15_HandedOnce ==
    [][/\ \A j \in JobIds :
            j \in QueuedIds' /\ j \notin QueuedIds
                => j = nextJob + 1 /\ nextJob' = j
       /\ Cardinality(QueuedIds') = Len(queue')
       /\ \A t \in TaskIds :
            /\ tasks[t].job = 0 /\ tasks'[t].job # 0
                 => /\ tasks'[t].job \in QueuedIds
                    /\ tasks'[t].job \notin QueuedIds'
                    /\ \A u \in TaskIds \ {t} : tasks'[u].job # tasks'[t].job
            /\ tasks[t].job # 0 => tasks'[t].job \in {0, tasks[t].job}]_vars

C15_Witness ==
    /\ Returned
    /\ ended.writes = <<"FAILED">>
    /\ ended.job \notin QueuedIds
    /\ queue # <<>>
    /\ tasks[ended.task].pc = "get"

\* C16: under fair scheduling of the worker tasks, a job that is in the
\* queue while the worker is started is eventually taken from the queue by
\* a task (which starts its handler, or passes over a job it does not
\* dispatch, in the same step), unless the worker is stopped first. "Queued
\* while started leads to not so" is stated in its equivalent form: time
\* and again the job is not waiting in the queue of a started worker.
C16_EveryJobStarts ==
    \A j \in JobIds :
        []<>(j \notin QueuedIds \/ ~is_running)

C16_Witness ==
    /\ is_running
    /\ queue = <<>>
    /\ nextJob = MaxJobs
    /\ \E t \in TaskIds : tasks[t].job = MaxJobs /\ tasks[t].pc = "load"

\* C17: a run that found the row FAILED (left so by an earlier run for the
\* same media) and in which no collaborator failed returns having persisted
\* READY and the manifest key, once: what the failed run left behind (a
\* partly copied target, partly uploaded objects) makes no stage fail.
C17_RerunReachesReady ==
    Returned /\ ended.entry = "FAILED" /\ ended.cause \in {"none", "target"}
        => /\ ended.writes = <<"READY">>
           /\ ended.keyWritten

C17_Witness ==
    /\ Returned
    /\ ended.entry = "FAILED"
    /\ ended.cause = "none"
    /\ ended.from = "FAILED"
    /\ db[ended.media].status = "READY"
    /\ db[ended.media].file_path = ManifestKey(ended.key)

\* C18: when a run begins (db.get has returned and run() makes the
\* workspace), the workspace directory of its media does not exist yet, and
\* the run starts with it existing and empty.
C18_FreshWorkspace ==
    [][\A t \in TaskIds :
          tasks[t].pc = "load" /\ tasks'[t].pc \in {"download", "enc1"}
            => /\ ~work[tasks[t].media].exists
               /\ work'[tasks[t].media] = [exists |-> TRUE, files |-> {}]]_vars

\* C19: the second thumbnail attempt is started only when the first has
\* returned with a failure; a failure of the first attempt never fails the
\* run; and a run whose second attempt succeeds goes on to publishing.
C19_RetryOnlyAfterFailure ==
    [][\A t \in TaskIds :
          /\ tasks'[t].pc = "thumb2" /\ tasks[t].pc # "thumb2"
               => tasks[t].pc = "thumb1" /\ ~tasks[t].cancel
          /\ tasks[t].pc = "thumb1" => tasks'[t].cause # "thumb"
          /\ Runs(t, "thumb2") /\ tasks'[t].pc # "thumb2"
                                /\ tasks'[t].cause # "thumb"
               => \/ tasks'[t].pc \in {"upload", "commit"}
                  \/ tasks'[t].cause \in {"publish", "target"}]_vars

\* C20: whenever the file_path of an existing row changes, a run for that
\* media is at its READY commit, and the new file_path is the parent of the
\* key that run loaded, followed by "hls" and "index.m3u8", with status READY.
C20_KeyIsParentHlsManifest ==
    [][\A m \in MediaIds :
          db[m].exists /\ db'[m].file_path # db[m].file_path
            => /\ db'[m].status = "READY"
               /\ \E t \in TaskIds :
                    /\ tasks[t].media = m
                    /\ tasks[t].pc = "commit"
                    /\ db'[m].file_path =
                          Dirname(tasks[t].key) \o <<"hls", "index.m3u8">>]_vars

C20_Witness ==
    \E m1, m2 \in MediaIds :
        /\ db[m1].status = "READY"
        /\ db[m2].status = "READY"
        /\ db[m1].file_path = <<"static", "uploads", "hls", "index.m3u8">>
        /\ db[m2].file_path = Dirname(RemoteKey(m2)) \o <<"hls", "index.m3u8">>

\* C21: while no task is working on a media that is READY with a manifest
\* key, no step removes a file of its published tree from durable storage
\* and no task writes one: publishing another media leaves the tree alone.
C21_PublishKeepsOtherTrees ==
    [][\A m \in MediaIds :
          /\ db[m].status = "READY"
          /\ IsManifestKey(db[m].file_path)
          /\ \A t \in TaskIds : tasks[t].media # m
          => \A f \in TreeOf(db[m].file_path) :
                /\ f \in Durable(db[m].file_path)
                      => f \in (IF IsLocal(db[m].file_path) THEN disk' ELSE b2')
                /\ \A t \in TaskIds : f \in tasks'[t].wrote => f \in tasks[t].wrote]_vars

\* C22: a step that changes the file_path of a row, or writes a row with
\* status READY, is the commit of a run for that media and leaves the row
\* READY with the manifest key of that run: the key and the status are
\* written together, never one without the other.
C22_KeyAndReadyInOneCommit ==
    [][\A m \in MediaIds :
          /\ db[m].exists
          /\ \/ db'[m].file_path # db[m].file_path
             \/ db'[m] # db[m] /\ db'[m].status = "READY"
          => /\ db'[m].status = "READY"
             /\ \E t \in TaskIds :
                   /\ tasks[t].media = m
                   /\ tasks[t].pc = "commit"
                   /\ db'[m].file_path = ManifestKey(KeyOf(t))]_vars

C22_Witness ==
    \E t \in TaskIds :
        /\ tasks[t].pc = "notify"
        /\ tasks[t].entry = "PENDING"
        /\ tasks[t].writes = <<"READY">>
        /\ db[tasks[t].media].status = "READY"
        /\ db[tasks[t].media].file_path = ManifestKey(tasks[t].key)

\* C23: when a task takes a transcode_media job for a stored media from the
\* queue, the persisted status of that media is PENDING.
C23_PickedUpPending ==
    [][\A t \in TaskIds :
          tasks[t].job = 0 /\ tasks'[t].job # 0 /\ tasks'[t].media \in MediaIds
            => db[tasks'[t].media].status = "PENDING"]_vars

\* C24: when a stop() call returns and the worker has not been started
\* again, no handler is executing, except in a task whose cancellation is
\* still to be delivered.
C24_NoHandlerAfterStop ==
    [][(\E w \in stopWait : w \notin stopWait') /\ ~is_running
          => \A t \in TaskIds : InHandler(tasks[t].pc) => tasks[t].cancel]_vars

\* C25: when a stop() call that was made while a run was in progress
\* returns, the workspace directory of that run's media does not exist.
C25_WorkspaceGoneAfterStop ==
    [][\A w \in stopWait :
          w \notin stopWait' /\ w[2] # 0 => ~work[w[2]].exists]_vars

\* C26: the encoder is never invoked on a downloaded source of length zero.
C26_NoEncoderOnEmptySource ==
    \A t \in TaskIds : tasks[t].pc \in {"enc1", "enc2"} => ~tasks[t].empty

\* C27: the source a run uses for a local key is the file at the path the
\* key resolves to, and no file at another location.
C27_NoSubstituteSource ==
    \A t \in TaskIds :
        InRun(tasks[t].pc) /\ IsLocal(KeyOf(t)) => tasks[t].src = KeyOf(t)

\* C28: the queue changes only by a job appended at its tail or by its head
\* taken, and its head is taken only while the worker is started: what is
\* queued at stop(), or enqueued while stopped, stays queued in its order.
C28_QueueKeptWhileStopped ==
    [][/\ \/ queue' = queue
          \/ \E job \in {queue'[i] : i \in 1..Len(queue')} :
                queue' = Append(queue, job)
          \/ queue # <<>> /\ queue' = Tail(queue)
       /\ Len(queue') < Len(queue) => is_running]_vars

\* C29 as stated: a handler that ends with READY as its last persisted
\* status has sent exactly one notification.
C29_ReadySendsOne ==
    HasEnded /\ ended.writes # <<>> /\ ended.writes[Len(ended.writes)] = "READY"
        => ended.notified = 1

\* C29: a handler that returns after its run committed READY has made
\* exactly one create_notification call and so sent at most one
\* notification, and READY is the only status it wrote.
C29_ReadyDispatchesOnce ==
    Returned /\ Present(<<"READY">>, {ended.writes[i] : i \in 1..Len(ended.writes)}) # <<>>
        => /\ ended.calls = 1
           /\ ended.notified <= 1
           /\ ended.writes = <<"READY">>

C29_Witness ==
    /\ Returned
    /\ ended.writes = <<"READY">>
    /\ ended.calls = 1
    /\ ended.notified = 1
    /\ ended.at = "notify"

\* C30: a job taken from the queue that is not dispatched (another kind, or
\* transcode_media without media_id), and a transcode_media job whose media
\* has no stored row once db.get has answered, change no row, no workspace
\* and no durable file, make no notification call, and leave the task at
\* the loop's next "queue.get" (or at its end when the worker was stopped).
C30_UndispatchedJobIsNoOp ==
    [][/\ Len(queue') < Len(queue) /\ ~Dispatched(Head(queue))
            => /\ \E t \in TaskIds :
                     /\ tasks[t].pc = "get"
                     /\ tasks'[t].pc = IF is_running THEN "get" ELSE "done"
                     /\ tasks'[t].job = 0
                     /\ \A u \in TaskIds \ {t} : tasks'[u] = tasks[u]
               /\ UNCHANGED <<db, work, disk, b2>>
               /\ ended'.calls = 0 /\ ended'.notified = 0
       /\ \A t \in TaskIds :
            /\ tasks[t].pc = "load"
            /\ tasks'[t].pc # "load"
            /\ ~tasks[t].cancel
            /\ ~Stored(MediaOf(t)).exists
            => /\ tasks'[t].pc = IF is_running THEN "get" ELSE "done"
               /\ tasks'[t].job = 0
               /\ UNCHANGED <<db, work, disk, b2>>
               /\ ended'.calls = 0 /\ ended'.notified = 0]_vars

C30_Witness ==
    /\ ended.how = "notfound"
    /\ ended.media = NoAsset
    /\ tasks[ended.task].pc = "get"
    /\ queue # <<>>
    /\ ~Dispatched(Head(queue))

====
